---- MODULE Spec2Model ----
(***************************************************************************)
(* RepoSpotlight: the repository store (database.py, cloud_database.py,    *)
(* firebase_database.py), its technology tally, the retry loop of the      *)
(* embedded store and the Refresh All loop of app_fixed.py.                *)
(***************************************************************************)
EXTENDS Integers, Sequences, FiniteSets, TLC

VARIABLES backend, repos, techs, nextId, nextKey, clock, ret,
          logical, call, refresh, procs, dest, mirror

vars == <<backend, repos, techs, nextId, nextKey, clock, ret,
          logical, call, refresh, procs, dest, mirror>>

\* the state of the concurrent processes, of the store a migration writes
\* to and of the three backends run side by side
others == <<procs, dest, mirror>>

(***************************************************************************)
(* Bounds of the model.                                                    *)
(***************************************************************************)
\* number of rows/items/documents ever inserted into `repositories`
MaxId == 2
\* number of rows/items/documents ever inserted into `technologies`
\* by direct tally calls (SpecTally)
MaxKey == 3
\* largest count a direct tally call may raise an entry to (SpecTally)
MaxCount == 3
\* the wall clock (seconds) runs from 0 to MaxClock
MaxClock == 1
\* number of complete operations one process runs in SpecRetry
MaxCalls == 2

Backends == {"sqlite", "deta", "firebase"}
Urls == {"u1", "u2"}
TechNames == {"Go", "Docker", "Python"}

\* Python's None, and Python truthiness of a str-or-None value
None == "None"
Truthy(x) == x # None /\ x # ""

(***************************************************************************)
(* JSON.  A JSON value is a tagged tuple; a JSON text (what json.dumps     *)
(* returns and json.loads takes) is a sequence of tokens.                  *)
(***************************************************************************)
JNull == <<"null">>
JStr(s) == <<"str", s>>
JArr(items) == <<"arr", items>>
\* members: a sequence of <<key, value>> in insertion order
JObj(members) == <<"obj", members>>
EmptyDict == JObj(<<>>)
Kind(v) == v[1]

P(c) == <<"p", c>>
S(s) == <<"s", s>>

RECURSIVE dumps(_), dumpItems(_), dumpMembers(_)
\* json.dumps(obj)
dumps(v) ==
    CASE Kind(v) = "null" -> << P("null") >>
      [] Kind(v) = "str"  -> << S(v[2]) >>
      [] Kind(v) = "arr"  -> << P("[") >> \o dumpItems(v[2]) \o << P("]") >>
      [] Kind(v) = "obj"  -> << P("{") >> \o dumpMembers(v[2]) \o << P("}") >>

dumpItems(items) ==
    IF items = <<>> THEN <<>>
    ELSE IF Len(items) = 1 THEN dumps(Head(items))
    ELSE dumps(Head(items)) \o << P(",") >> \o dumpItems(Tail(items))

dumpMembers(ms) ==
    IF ms = <<>> THEN <<>>
    ELSE LET m == Head(ms)
             one == << S(m[1]), P(":") >> \o dumps(m[2])
         IN IF Len(ms) = 1 THEN one
            ELSE one \o << P(",") >> \o dumpMembers(Tail(ms))

\* A parse result: ok, the value read, and the tokens left.
ParseFail == [ok |-> FALSE, v |-> JNull, rest |-> <<>>]
ParseOk(v, rest) == [ok |-> TRUE, v |-> v, rest |-> rest]
IsTok(toks, t) == toks # <<>> /\ Head(toks) = t

RECURSIVE parseValue(_), parseItems(_, _), parseMembers(_, _)
\* one JSON value at the head of toks
parseValue(toks) ==
    IF toks = <<>> THEN ParseFail
    ELSE LET t == Head(toks) IN
         IF t[1] = "s" THEN ParseOk(JStr(t[2]), Tail(toks))
         ELSE IF t = P("null") THEN ParseOk(JNull, Tail(toks))
         ELSE IF t = P("[") THEN
              IF IsTok(Tail(toks), P("]"))
              THEN ParseOk(JArr(<<>>), Tail(Tail(toks)))
              ELSE parseItems(Tail(toks), <<>>)
         ELSE IF t = P("{") THEN
              IF IsTok(Tail(toks), P("}"))
              THEN ParseOk(JObj(<<>>), Tail(Tail(toks)))
              ELSE parseMembers(Tail(toks), <<>>)
         ELSE ParseFail

\* the items of an array after "[" (at least one), up to and including "]"
parseItems(toks, acc) ==
    LET r == parseValue(toks) IN
    IF ~r.ok THEN ParseFail
    ELSE IF IsTok(r.rest, P(",")) THEN parseItems(Tail(r.rest), Append(acc, r.v))
    ELSE IF IsTok(r.rest, P("]")) THEN ParseOk(JArr(Append(acc, r.v)), Tail(r.rest))
    ELSE ParseFail

\* python dicts keep one value per key: a repeated key keeps its first
\* position and takes the last value
PutMember(ms, k, v) ==
    IF \E i \in 1..Len(ms) : ms[i][1] = k
    THEN [i \in 1..Len(ms) |-> IF ms[i][1] = k THEN <<k, v>> ELSE ms[i]]
    ELSE Append(ms, <<k, v>>)

\* the members of an object after "{" (at least one), up to and including "}"
parseMembers(toks, acc) ==
    IF toks = <<>> \/ Head(toks)[1] # "s" \/ ~IsTok(Tail(toks), P(":")) THEN ParseFail
    ELSE LET k == Head(toks)[2]
             r == parseValue(Tail(Tail(toks)))
         IN IF ~r.ok THEN ParseFail
            ELSE IF IsTok(r.rest, P(","))
                 THEN parseMembers(Tail(r.rest), PutMember(acc, k, r.v))
            ELSE IF IsTok(r.rest, P("}"))
                 THEN ParseOk(JObj(PutMember(acc, k, r.v)), Tail(r.rest))
            ELSE ParseFail

\* json.loads(s): ok is FALSE where it raises JSONDecodeError
loads(s) ==
    LET r == parseValue(s) IN
    IF r.ok /\ r.rest = <<>> THEN r ELSE ParseFail

\* the metadata read without the try/except and the default
read_metadata_NoDefault(s) == loads(s).v

\* json.loads(repo["metadata"]) if repo["metadata"] else {}, with the
\* bare except that defaults to {}
read_metadata(s) ==
    IF s = <<>> THEN EmptyDict
    ELSE IF loads(s).ok THEN loads(s).v ELSE EmptyDict

\* dict.get(key) on a JSON object: the value, or JNull (None) when absent
DictGet(obj, k) ==
    LET ms == obj[2]
        hits == {i \in 1..Len(ms) : ms[i][1] = k}
    IN IF hits = {} THEN JNull ELSE ms[CHOOSE i \in hits : TRUE][2]

\* Python truthiness of a JSON value
JTruthy(v) ==
    CASE Kind(v) = "null" -> FALSE
      [] Kind(v) = "str"  -> v[2] # ""
      [] Kind(v) = "arr"  -> v[2] # <<>>
      [] Kind(v) = "obj"  -> v[2] # <<>>

(***************************************************************************)
(* Fetched repository data: what get_repo_info returns, as far as the      *)
(* store reads it.  custom_metadata is whatever JSON value the metadata    *)
(* file holds ({} when there is none).                                     *)
(***************************************************************************)
RepoData(n, o, d, st, fk, l, u, cm) ==
    [name |-> n, owner |-> [login |-> o], description |-> d, stars |-> st,
     forks |-> fk, language |-> l, updated_at |-> u, custom_metadata |-> cm]

DataGo ==
    RepoData("A", "alice", "first", 5, 1, "Go", "2024-01-01",
             JObj(<< <<"tech_stack", JArr(<<JStr("Go"), JStr("Docker")>>)>> >>))
DataPy ==
    RepoData("B", "bob", None, 0, 0, "Python", "2024-02-02", EmptyDict)
DataNoLang ==
    RepoData("C", "carol", "", 7, 2, None, "2024-03-03",
             JObj(<< <<"contact", JObj(<< <<"email", JNull>> >>)>>,
                     <<"tech_stack", JArr(<<JStr("Go")>>)>> >>))
\* a metadata file whose top-level JSON value is an array
DataArrayMeta ==
    RepoData("D", "dave", "fourth", 1, 1, "Go", "2024-04-04", JArr(<<JStr("Go")>>))

FetchedData == {DataGo, DataPy, DataNoLang, DataArrayMeta}
NoData == RepoData("", "", "", 0, 0, "", "", JNull)

(***************************************************************************)
(* The store.  st = [repos, techs, nextId, nextKey]: the rows / items /    *)
(* documents of `repositories` and `technologies`, and the next key each   *)
(* collection hands out.                                                   *)
(***************************************************************************)
Store(r, t, i, k) == [repos |-> r, techs |-> t, nextId |-> i, nextKey |-> k]

\* BuildRecord reading the metadata under a key repo_data does not have:
\* json.dumps(repo_data.get("metadata", {}))
BuildRecord_WrongKey(id, repo_url, repo_data, now) ==
    [id |-> id,
     repo_url |-> repo_url,
     name |-> repo_data.name,
     owner |-> repo_data.owner.login,
     description |-> repo_data.description,
     stars |-> repo_data.stars,
     forks |-> repo_data.forks,
     language |-> repo_data.language,
     last_updated |-> repo_data.updated_at,
     last_synced |-> now,
     metadata |-> dumps(EmptyDict)]

\* the record add_repository / update_repository build from repo_data
BuildRecord(id, repo_url, repo_data, now) ==
    [id |-> id,
     repo_url |-> repo_url,
     name |-> repo_data.name,
     owner |-> repo_data.owner.login,
     description |-> repo_data.description,
     stars |-> repo_data.stars,
     forks |-> repo_data.forks,
     language |-> repo_data.language,
     last_updated |-> repo_data.updated_at,
     last_synced |-> now,
     metadata |-> dumps(repo_data.custom_metadata)]

\* SELECT ... WHERE repo_url = ? / fetch({"repo_url": ...}) / where(...)
FindByUrl(rs, repo_url) == {r \in rs : r.repo_url = repo_url}
FindByName(ts, name) == {t \in ts : t.name = name}
\* results[0] / docs[0]: the collections list their items by key
First(items) == CHOOSE x \in items : \A y \in items : x.key <= y.key
FirstRepo(items) == CHOOSE x \in items : \A y \in items : x.id <= y.id

\* update_technology of database.py (one attempt that meets no error)
sqlite_update_technology(st, name) ==
    IF FindByName(st.techs, name) # {}
    THEN [st EXCEPT !.techs = {IF t.name = name THEN [t EXCEPT !.count = @ + 1] ELSE t
                               : t \in st.techs}]
    ELSE [st EXCEPT !.techs = @ \cup {[key |-> st.nextKey, name |-> name, count |-> 1]},
                    !.nextKey = @ + 1]

\* decrease_technology_count deleting WHERE count < 0
sqlite_decrease_technology_count_KeepsZero(st, name) ==
    LET updated == {IF t.name = name THEN [t EXCEPT !.count = @ - 1] ELSE t
                    : t \in st.techs}
    IN [st EXCEPT !.techs = {t \in updated : ~(t.count < 0)}]

\* decrease_technology_count of database.py (one attempt that meets no error)
sqlite_decrease_technology_count(st, name) ==
    LET updated == {IF t.name = name THEN [t EXCEPT !.count = @ - 1] ELSE t
                    : t \in st.techs}
    IN [st EXCEPT !.techs = {t \in updated : ~(t.count <= 0)}]

\* update_technology putting a new item whether or not one exists
cloud_update_technology_AlwaysPut(st, name) ==
    [st EXCEPT !.techs = @ \cup {[key |-> st.nextKey, name |-> name, count |-> 1]},
               !.nextKey = @ + 1]

\* update_technology of cloud_database.py and firebase_database.py
cloud_update_technology(st, name) ==
    LET results == FindByName(st.techs, name) IN
    IF results # {}
    THEN LET tech == First(results) IN
         [st EXCEPT !.techs = (@ \ {tech}) \cup {[tech EXCEPT !.count = tech.count + 1]}]
    ELSE [st EXCEPT !.techs = @ \cup {[key |-> st.nextKey, name |-> name, count |-> 1]},
                    !.nextKey = @ + 1]

\* decrease_technology_count of cloud_database.py and firebase_database.py
cloud_decrease_technology_count(st, name) ==
    LET results == FindByName(st.techs, name) IN
    IF results # {}
    THEN LET tech == First(results) IN
         IF tech.count <= 1
         THEN [st EXCEPT !.techs = @ \ {tech}]
         ELSE [st EXCEPT !.techs = (@ \ {tech}) \cup {[tech EXCEPT !.count = tech.count - 1]}]
    ELSE st

update_technology(b, st, name) ==
    IF b = "sqlite" THEN sqlite_update_technology(st, name)
    ELSE cloud_update_technology(st, name)

decrease_technology_count(b, st, name) ==
    IF b = "sqlite" THEN sqlite_decrease_technology_count(st, name)
    ELSE cloud_decrease_technology_count(st, name)

\* the names `for tech in custom_metadata["tech_stack"]` passes to
\* update_technology: the items of a list, the keys of a dict
TechStackNames(ts) ==
    CASE Kind(ts) = "arr" -> [i \in 1..Len(ts[2]) |-> ts[2][i][2]]
      [] Kind(ts) = "obj" -> [i \in 1..Len(ts[2]) |-> ts[2][i][1]]

RECURSIVE UpdateTechnologies(_, _, _)
UpdateTechnologies(b, st, names) ==
    IF names = <<>> THEN st
    ELSE UpdateTechnologies(b, update_technology(b, st, Head(names)), Tail(names))

Returned(st, result) == [st |-> st, result |-> result]

\* add_repository without its existence check
AddExists_Unchecked(st, repo_url) == FALSE

\* the check of add_repository: "Repository already exists"
AddExists(st, repo_url) == FindByUrl(st.repos, repo_url) # {}

\* add_repository after its existence check: the insert (the put, the set)
InsertRecord(st, repo_url, repo_data, now) ==
    [st EXCEPT !.repos = @ \cup {BuildRecord(st.nextId, repo_url, repo_data, now)},
               !.nextId = @ + 1]

\* repo_url TEXT UNIQUE NOT NULL: the INSERT raises IntegrityError on a
\* second row of one repo_url; the item and document stores have no such
\* constraint
UniqueViolation(b, st, repo_url) ==
    b = "sqlite" /\ \E r \in st.repos : r.repo_url = repo_url

\* add_repository counting the language only
AddTally_LanguageOnly(b, st, repo_data) ==
    LET cm == repo_data.custom_metadata
        s1 == IF Truthy(repo_data.language)
              THEN update_technology(b, st, repo_data.language) ELSE st
    IN IF Kind(cm) # "obj" THEN Returned(s1, FALSE) ELSE Returned(s1, TRUE)

\* add_repository after the insert: the language, then the tech_stack
AddTally(b, st, repo_data) ==
    LET cm == repo_data.custom_metadata
        s1 == IF Truthy(repo_data.language)
              THEN update_technology(b, st, repo_data.language) ELSE st
    IN IF Kind(cm) # "obj"
       THEN \* .get on a list, a str or None: AttributeError, caught: return False
            Returned(s1, FALSE)
       ELSE IF JTruthy(DictGet(cm, "tech_stack"))
            THEN Returned(UpdateTechnologies(b, s1, TechStackNames(DictGet(cm, "tech_stack"))),
                          TRUE)
            ELSE Returned(s1, TRUE)

\* add_repository (an attempt that meets no storage error)
add_repository(b, st, repo_url, repo_data, now) ==
    IF AddExists(st, repo_url) THEN Returned(st, FALSE)
    ELSE IF UniqueViolation(b, st, repo_url)
         THEN \* IntegrityError, caught by `except Exception`: return False
              Returned(st, FALSE)
    ELSE AddTally(b, InsertRecord(st, repo_url, repo_data, now), repo_data)

\* update_repository counting the new language as add_repository does
update_repository_Retally(b, st, repo_url, repo_data, now) ==
    LET existing == FindByUrl(st.repos, repo_url) IN
    IF existing = {} THEN Returned(st, FALSE)
    ELSE LET old == FirstRepo(existing)
             s1 == [st EXCEPT !.repos =
                       (@ \ {old}) \cup {BuildRecord(old.id, repo_url, repo_data, now)}]
         IN Returned(IF Truthy(repo_data.language)
                     THEN update_technology(b, s1, repo_data.language) ELSE s1, TRUE)

\* update_repository as a delete and a fresh insert
update_repository_Reinsert(b, st, repo_url, repo_data, now) ==
    LET existing == FindByUrl(st.repos, repo_url) IN
    IF existing = {} THEN Returned(st, FALSE)
    ELSE Returned([st EXCEPT !.repos =
                      (@ \ existing) \cup {BuildRecord(st.nextId, repo_url, repo_data, now)},
                             !.nextId = @ + 1], TRUE)

\* update_repository
update_repository(b, st, repo_url, repo_data, now) ==
    LET existing == FindByUrl(st.repos, repo_url) IN
    IF existing = {} THEN Returned(st, FALSE)
    ELSE IF b = "sqlite"
         THEN \* UPDATE ... WHERE repo_url = ?
              Returned([st EXCEPT !.repos =
                           {IF r.repo_url = repo_url
                            THEN BuildRecord(r.id, repo_url, repo_data, now) ELSE r
                            : r \in st.repos}], TRUE)
         ELSE \* put(..., existing[0]["key"]) / document(doc_id).update(...)
              LET old == FirstRepo(existing) IN
              Returned([st EXCEPT !.repos =
                           (@ \ {old}) \cup {BuildRecord(old.id, repo_url, repo_data, now)}],
                       TRUE)

\* delete_repository leaving the tally alone
delete_repository_NoDecrement(b, st, repo_url) ==
    LET found == FindByUrl(st.repos, repo_url) IN
    IF found = {} THEN Returned(st, FALSE)
    ELSE Returned([st EXCEPT !.repos = @ \ found], TRUE)

\* delete_repository decrementing before it looks the record up, for the
\* language of any stored record
delete_repository_DecrementFirst(b, st, repo_url) ==
    LET found == FindByUrl(st.repos, repo_url)
        langs == {r.language : r \in {x \in st.repos : Truthy(x.language)}}
        s1 == IF langs # {}
              THEN decrease_technology_count(b, st, CHOOSE l \in langs : TRUE) ELSE st
    IN IF found = {} THEN Returned(s1, FALSE)
       ELSE Returned([s1 EXCEPT !.repos = @ \ found], TRUE)

\* delete_repository decrementing the tech_stack of the record as well
delete_repository_DecrementStack(b, st, repo_url) ==
    LET found == FindByUrl(st.repos, repo_url) IN
    IF found = {} THEN Returned(st, FALSE)
    ELSE LET repo == FirstRepo(found)
             cm == read_metadata(repo.metadata)
             s1 == IF Truthy(repo.language)
                   THEN decrease_technology_count(b, st, repo.language) ELSE st
             s2 == IF Kind(cm) = "obj" /\ Kind(DictGet(cm, "tech_stack")) = "arr"
                      /\ DictGet(cm, "tech_stack")[2] # <<>>
                   THEN decrease_technology_count(b, s1, DictGet(cm, "tech_stack")[2][1][2])
                   ELSE s1
         IN Returned([s2 EXCEPT !.repos = @ \ found], TRUE)

\* delete_repository
delete_repository(b, st, repo_url) ==
    LET found == FindByUrl(st.repos, repo_url) IN
    IF found = {} THEN Returned(st, FALSE)
    ELSE LET repo == FirstRepo(found)
             s1 == IF Truthy(repo.language)
                   THEN decrease_technology_count(b, st, repo.language) ELSE st
         IN IF b = "sqlite"
            THEN \* DELETE FROM repositories WHERE repo_url = ?
                 Returned([s1 EXCEPT !.repos = @ \ found], TRUE)
            ELSE \* delete(repo["key"]) / document(doc.id).delete()
                 Returned([s1 EXCEPT !.repos = @ \ {repo}], TRUE)

\* what a caller reads: the stored row with metadata parsed
ReadRecord(r) == [r EXCEPT !.metadata = read_metadata(r.metadata)]

\* get_repository: <<>> stands for None
get_repository(st, repo_url) ==
    LET results == FindByUrl(st.repos, repo_url) IN
    IF results = {} THEN <<>> ELSE << ReadRecord(FirstRepo(results)) >>

\* all orders of a finite set
Perms(set) ==
    {s \in [1..Cardinality(set) -> set] : \A x \in set : \E i \in DOMAIN s : s[i] = x}

\* get_all_repositories sorting in ascending order
get_all_repositories_Ascending(st) ==
    {[i \in DOMAIN s |-> ReadRecord(s[i])] :
        s \in {p \in Perms(st.repos) :
                 \A i, j \in DOMAIN p : i < j => p[i].last_synced <= p[j].last_synced}}

\* ORDER BY last_synced DESC / sort(key=last_synced, reverse=True): every
\* listing the order allows (records of equal last_synced in any order)
get_all_repositories(st) ==
    {[i \in DOMAIN s |-> ReadRecord(s[i])] :
        s \in {p \in Perms(st.repos) :
                 \A i, j \in DOMAIN p : i < j => p[i].last_synced >= p[j].last_synced}}

\* ORDER BY count DESC / sort(key=count, reverse=True)
get_technology_stats(st) ==
    {[i \in DOMAIN s |-> [name |-> s[i].name, count |-> s[i].count]] :
        s \in {p \in Perms(st.techs) :
                 \A i, j \in DOMAIN p : i < j => p[i].count >= p[j].count}}

(***************************************************************************)
(* State.  ret is the last call and what it returned; logical, call and    *)
(* refresh are used by SpecTally, SpecRetry and SpecRefresh.               *)
(***************************************************************************)
CurrentStore == Store(repos, techs, nextId, nextKey)

SetStore(st) ==
    /\ repos' = st.repos
    /\ techs' = st.techs
    /\ nextId' = st.nextId
    /\ nextKey' = st.nextKey

\* the call before this one was add_repository of the same url, which had
\* no record then
FollowsAdd(url) == ret.op = "add" /\ ~ret.existed /\ ret.url = url

\* url: the url, or the technology name of a tally call; result: the value
\* returned (FALSE also for the None of the tally calls); existed: the url
\* had a record (the name an entry) when the call began; value: the records
\* a read returned; stats: what get_technology_stats returned; fault: the
\* storage failure the call met ("none" for a call that met none)
Call(op, url, data, result, existed, value, stats) ==
    [op |-> op, url |-> url, data |-> data, result |-> result,
     existed |-> existed, value |-> value, stats |-> stats,
     follows |-> FollowsAdd(url), fault |-> "none"]
NoCall == [op |-> "none", url |-> "", data |-> NoData, result |-> FALSE,
           existed |-> FALSE, value |-> <<>>, stats |-> <<>>, follows |-> FALSE,
           fault |-> "none"]

Record(c) == ret' = c

\* a retry loop that ended: the function, the attempts it made, how many of
\* them met "database is locked", the sleeps between them, whether its
\* write was committed
Loop(fn, attempts, locked, slept, ok) ==
    [fn |-> fn, attempts |-> attempts, locked |-> locked, slept |-> slept, ok |-> ok]
NoLoop == Loop("none", 0, 0, <<>>, FALSE)

\* op: the operation in progress; fn: the function whose retry loop runs;
\* name: the technology fn was called with; pending: the technologies
\* add_repository has still to pass to update_technology; raises: the add
\* raises AttributeError at .get("tech_stack"); attempt, retry_delay: the
\* loop's variables; slept, locked: its sleeps and contended attempts so
\* far; last: the loop that ended last; raised: an exception left the
\* operation; calls: operations begun; outcome: what the latest attempt met;
\* before: the technology entries when the operation began
IdleCall == [op |-> "idle", url |-> "", data |-> NoData, fn |-> "none", name |-> "",
             pending |-> <<>>, raises |-> FALSE, attempt |-> 0, retry_delay |-> 0,
             slept |-> <<>>, locked |-> 0, last |-> NoLoop, raised |-> FALSE,
             calls |-> 0, outcome |-> "none", before |-> {}]
\* Refresh All.  pc: "idle", "loop" (inside `for repo in repos`) or "done";
\* listed: the urls get_all_repositories returned; todo: those the loop has
\* still to visit; failed: the urls whose fetch returned None; passed: the
\* [url, data] passed to update_repository; updated: those of them it
\* returned True for; errors: the messages shown (st.error) or printed, each
\* with the url it was emitted for; raised: an exception left the loop
IdleRefresh == [pc |-> "idle", listed |-> <<>>, todo |-> <<>>, failed |-> {},
                passed |-> {}, updated |-> {}, errors |-> <<>>, raised |-> FALSE]

\* the two processes of SpecConc.  op, arg, data: the call both make; base:
\* the store when they began; of[p]: where process p is (pc), the technology
\* the record its delete looked up (rec), the technology its tally call is
\* for (name), what the read of that call returned (seen), the technologies
\* its add has still to count (pending), what it returned (result)
Processes == {1, 2}
EmptyStore == Store({}, {}, 1, 1)
IdleProcess == [pc |-> "idle", rec |-> {}, name |-> "", seen |-> {},
                pending |-> <<>>, result |-> FALSE]
IdleProcs == [op |-> "none", arg |-> "", data |-> NoData, base |-> EmptyStore,
              of |-> [p \in Processes |-> IdleProcess]]

\* one backend of the three run side by side: its store and what its last
\* call returned (result, and the values a read may return)
NoOut == [result |-> FALSE, value |-> {}]
IdleMirror == [b \in Backends |-> [st |-> EmptyStore, out |-> NoOut]]

Init ==
    /\ procs = IdleProcs
    /\ dest = EmptyStore
    /\ mirror = IdleMirror
    /\ backend \in Backends
    /\ repos = {}
    /\ techs = {}
    /\ nextId = 1
    /\ nextKey = 1
    /\ clock = 0
    /\ ret = NoCall
    /\ logical = [n \in TechNames |-> 0]
    /\ call = IdleCall
    /\ refresh = IdleRefresh

\* time passes: datetime.datetime.now() is read at whole seconds
Tick ==
    /\ clock < MaxClock
    /\ clock' = clock + 1
    /\ UNCHANGED <<backend, repos, techs, nextId, nextKey, ret, logical, others, call, refresh>>

AddRepository(repo_url, repo_data) ==
    LET r == add_repository(backend, CurrentStore, repo_url, repo_data, clock) IN
    /\ AddExists(CurrentStore, repo_url) \/ nextId <= MaxId
    /\ SetStore(r.st)
    /\ Record(Call("add", repo_url, repo_data, r.result,
                   AddExists(CurrentStore, repo_url), <<>>, <<>>))
    /\ UNCHANGED <<backend, clock, logical, others, call, refresh>>

UpdateRepository(repo_url, repo_data) ==
    LET r == update_repository(backend, CurrentStore, repo_url, repo_data, clock) IN
    /\ SetStore(r.st)
    /\ Record(Call("update", repo_url, repo_data, r.result,
                   AddExists(CurrentStore, repo_url), <<>>, <<>>))
    /\ UNCHANGED <<backend, clock, logical, others, call, refresh>>

DeleteRepository(repo_url) ==
    LET r == delete_repository(backend, CurrentStore, repo_url) IN
    /\ SetStore(r.st)
    /\ Record(Call("delete", repo_url, NoData, r.result,
                   AddExists(CurrentStore, repo_url), <<>>, <<>>))
    /\ UNCHANGED <<backend, clock, logical, others, call, refresh>>

GetRepository(repo_url) ==
    LET v == get_repository(CurrentStore, repo_url) IN
    /\ Record(Call("get", repo_url, NoData, v # <<>>,
                   AddExists(CurrentStore, repo_url), v, <<>>))
    /\ UNCHANGED <<backend, repos, techs, nextId, nextKey, clock, logical, others, call, refresh>>

GetAllRepositories ==
    \E v \in get_all_repositories(CurrentStore) :
        /\ Record(Call("list", "", NoData, TRUE, FALSE, v, <<>>))
        /\ UNCHANGED <<backend, repos, techs, nextId, nextKey, clock, logical, others, call, refresh>>

GetTechnologyStats ==
    \E v \in get_technology_stats(CurrentStore) :
        /\ Record(Call("stats", "", NoData, TRUE, FALSE, <<>>, v))
        /\ UNCHANGED <<backend, repos, techs, nextId, nextKey, clock, logical, others, call, refresh>>

Next ==
    \/ \E u \in Urls, d \in FetchedData : AddRepository(u, d)
    \/ \E u \in Urls, d \in FetchedData : UpdateRepository(u, d)
    \/ \E u \in Urls : DeleteRepository(u)
    \/ \E u \in Urls : GetRepository(u)
    \/ GetAllRepositories
    \/ GetTechnologyStats

Spec == Init /\ [][Next]_vars

\* the record operations with the clock running (SpecTimed)
TimedData == {DataGo, DataPy}

NextTimed ==
    \/ Tick
    \/ \E u \in Urls, d \in TimedData : AddRepository(u, d)
    \/ \E u \in Urls, d \in TimedData : UpdateRepository(u, d)
    \/ \E u \in Urls : DeleteRepository(u)
    \/ GetAllRepositories

SpecTimed == Init /\ [][NextTimed]_vars

(***************************************************************************)
(* Properties of the failure-free sequential operations (Spec).            *)
(***************************************************************************)
RECURSIVE SumCounts(_)
SumCounts(ts) ==
    IF ts = {} THEN 0
    ELSE LET t == CHOOSE x \in ts : TRUE IN t.count + SumCounts(ts \ {t})

\* the tally's count of a name: 0 when it has no entry
TallyCount(ts, name) == SumCounts(FindByName(ts, name))

\* occurrences of a name in a JSON value's tech_stack list
StackOccurrences(cm, name) ==
    IF Kind(cm) = "obj" /\ Kind(DictGet(cm, "tech_stack")) = "arr"
    THEN LET l == DictGet(cm, "tech_stack")[2]
         IN Cardinality({i \in DOMAIN l : l[i] = JStr(name)})
    ELSE 0

LanguageRef(language, name) == IF Truthy(language) /\ language = name THEN 1 ELSE 0

RECURSIVE RefCount(_, _)
\* the references to a name by the stored records
RefCount(rs, name) ==
    IF rs = {} THEN 0
    ELSE LET r == CHOOSE x \in rs : TRUE
         IN LanguageRef(r.language, name)
            + StackOccurrences(read_metadata(r.metadata), name)
            + RefCount(rs \ {r}, name)

\* an insert into `repositories` happened in this step
Inserted == nextId' = nextId + 1

\* the entries of one listing of the tally
Entries(stats) == {stats[i] : i \in DOMAIN stats}

\* C1 (as claimed): add(U, D) on a url without a record and then add(U, D')
\* return True and then False, and exactly one record of U is stored.
C1_AddTwice ==
    [][(/\ ret.op = "add" /\ ~ret.existed
        /\ ret'.op = "add" /\ ret'.url = ret.url)
       => (/\ ret.result = TRUE
           /\ ret'.result = FALSE
           /\ Cardinality(FindByUrl(repos', ret.url)) = 1)]_vars

\* C3 (as claimed): the tally count of every technology is the number of
\* references to it by the stored records, and a name nobody references has
\* no entry.
C3_TallyEqualsReferences ==
    \A name \in TechNames :
        /\ TallyCount(techs, name) = RefCount(repos, name)
        /\ RefCount(repos, name) = 0 => FindByName(techs, name) = {}

\* C4: a successful add raises the count of each technology by 1 if it is
\* the (non-empty) language plus its occurrences in tech_stack, creates at
\* most one entry per name and changes nothing else in the tally.
C4_AddEffectOnTally ==
    [][(ret'.op = "add" /\ ret'.result /\ Inserted)
       => \A name \in TechNames \cup {t.name : t \in techs \cup techs'} :
            /\ TallyCount(techs', name)
                 = TallyCount(techs, name)
                   + LanguageRef(ret'.data.language, name)
                   + StackOccurrences(ret'.data.custom_metadata, name)
            /\ Cardinality(FindByName(techs', name)) <= 1
            /\ FindByName(techs, name) = {} /\ FindByName(techs', name) # {}
                 => TallyCount(techs', name) >= 1]_vars

\* C4's case: from an empty tally, language Go with tech_stack [Go, Docker]
C4_Witness ==
    /\ ret.op = "add" /\ ret.result /\ ret.data = DataGo
    /\ nextKey = 3
    /\ TallyCount(techs, "Go") = 2
    /\ TallyCount(techs, "Docker") = 1

\* the scenario of C5: the first record ever inserted was DataGo's, into an
\* empty tally, and the next call deletes it
C5_Scenario ==
    /\ ret.op = "add" /\ ret.result /\ ret.data = DataGo
    /\ nextId = 2 /\ nextKey = 3
    /\ ret'.op = "delete" /\ ret'.url = ret.url

\* C5 (as claimed): after adding A (Go, [Go, Docker]) to the empty store and
\* deleting A, the tally snapshot is exactly Docker: 1.
C5_SnapshotAfterDelete_Claimed ==
    [][C5_Scenario
       => \A stats \in get_technology_stats(CurrentStore)' :
            stats = << [name |-> "Docker", count |-> 1] >>]_vars

\* C5 (amended): after adding A (Go, [Go, Docker]) to the empty store and
\* deleting A, the tally snapshot is exactly Go: 1 and Docker: 1.
C5_SnapshotAfterDelete ==
    [][C5_Scenario
       => /\ ret'.result
          /\ repos' = {}
          /\ \A stats \in get_technology_stats(CurrentStore)' :
               /\ Len(stats) = 2
               /\ Entries(stats) = {[name |-> "Go", count |-> 1],
                                    [name |-> "Docker", count |-> 1]}]_vars

C5_Witness ==
    /\ ret.op = "delete" /\ ret.result /\ ret.follows
    /\ repos = {} /\ nextId = 2 /\ nextKey = 3
    /\ {[name |-> t.name, count |-> t.count] : t \in techs}
         = {[name |-> "Go", count |-> 1], [name |-> "Docker", count |-> 1]}

\* C6: delete_repository of a url without a record returns False and
\* changes no tally entry and no repository record.
C6_DeleteAbsent ==
    [][(ret'.op = "delete" /\ ~ret'.existed)
       => (/\ ret'.result = FALSE
           /\ techs' = techs
           /\ repos' = repos)]_vars

C6_Witness ==
    /\ ret.op = "delete" /\ ~ret.existed /\ ~ret.result
    /\ repos # {} /\ techs # {}

\* C7: a successful add(U, D) followed by get_repository(U) returns a record
\* whose metadata is deep-equal to D.custom_metadata.
C7_MetadataRoundTrip ==
    [][(/\ ret.op = "add" /\ ret.result
        /\ ret'.op = "get" /\ ret'.url = ret.url)
       => (/\ Len(ret'.value) = 1
           /\ ret'.value[1].repo_url = ret.url
           /\ ret'.value[1].metadata = ret.data.custom_metadata)]_vars

C7_Witness ==
    /\ ret.op = "get" /\ ret.follows /\ Len(ret.value) = 1
    /\ ret.value[1].metadata = DataNoLang.custom_metadata
    /\ ret.value[1].last_updated = DataNoLang.updated_at

\* C10: no two stored repository records have the same repo_url.
C10_UniqueRepoUrl ==
    \A r1, r2 \in repos : r1.repo_url = r2.repo_url => r1 = r2

C10_Witness ==
    /\ Cardinality(repos) = 2
    /\ ret.op = "add" /\ ret.existed /\ ~ret.result /\ ret.follows
    /\ nextId > 2

(***************************************************************************)
(* The tally called directly: any sequence of update_technology and        *)
(* decrease_technology_count calls (SpecTally).  logical[name] is the      *)
(* count the calls so far amount to: +1 per increment, -1 per decrement,   *)
(* never below 0.                                                          *)
(***************************************************************************)
UpdateTechnologyCall(name) ==
    /\ TallyCount(techs, name) < MaxCount
    /\ FindByName(techs, name) # {} \/ nextKey <= MaxKey
    /\ SetStore(update_technology(backend, CurrentStore, name))
    /\ logical' = [logical EXCEPT ![name] = @ + 1]
    /\ Record(Call("inc", name, NoData, FALSE, FindByName(techs, name) # {}, <<>>, <<>>))
    /\ UNCHANGED <<backend, clock, call, refresh, others>>

DecreaseTechnologyCall(name) ==
    /\ SetStore(decrease_technology_count(backend, CurrentStore, name))
    /\ logical' = [logical EXCEPT ![name] = IF @ > 0 THEN @ - 1 ELSE 0]
    /\ Record(Call("dec", name, NoData, FALSE, FindByName(techs, name) # {}, <<>>, <<>>))
    /\ UNCHANGED <<backend, clock, call, refresh, others>>

NextTally ==
    \/ \E name \in TechNames : UpdateTechnologyCall(name)
    \/ \E name \in TechNames : DecreaseTechnologyCall(name)

SpecTally == Init /\ [][NextTally]_vars

\* C2: every tally entry has count >= 1, a name whose logical count is <= 0
\* has no entry, and a decrement of a name without an entry creates none.
C2_TallyNonNegative ==
    /\ \A t \in techs : t.count >= 1
    /\ \A name \in TechNames : logical[name] <= 0 => FindByName(techs, name) = {}
    /\ (ret.op = "dec" /\ ~ret.existed) => FindByName(techs, ret.url) = {}

\* an entry was counted up and down to removal, and a decrement then met a
\* name without an entry
C2_Witness ==
    /\ ret.op = "dec" /\ ~ret.existed
    /\ logical[ret.url] = 0
    /\ nextKey > Cardinality(techs) + 1
    /\ \E t \in techs : t.count >= 2

(***************************************************************************)
(* The retry loops of database.py, one attempt per step (SpecRetry).  Each *)
(* attempt meets one of: no error ("ok"), OperationalError "database is    *)
(* locked" ("locked"), another OperationalError ("operr"), another         *)
(* exception ("error"), or get_db_connection returning None ("noconn").    *)
(* update_repository and delete_repository have no loop: their one attempt *)
(* is a loop of length one (SpecWrites).                                   *)
(***************************************************************************)
max_retries == 5
\* retry_delay = 1.0, in units of 0.0001 s
InitialRetryDelay == 10000
\* retry_delay *= 2
Backoff_Double(retry_delay) == retry_delay * 2

\* retry_delay *= 1.5
Backoff(retry_delay) == (retry_delay * 15) \div 10

AttemptOutcomes == {"ok", "locked", "operr", "error", "noconn"}

add_repository_on_error_RetryLast(kind, attempt) ==
    CASE kind = "locked" /\ attempt < max_retries -> "retry"
      [] kind \in {"locked", "operr"} -> "return"
      [] kind = "error" -> "return"
      [] OTHER -> "raise"

\* the except clauses of add_repository: what an attempt that failed with
\* `kind` leads to
add_repository_on_error(kind, attempt) ==
    CASE kind = "locked" /\ attempt < max_retries - 1 -> "retry"
      [] kind \in {"locked", "operr"} -> "return"
      [] kind = "error" -> "return"
      [] OTHER -> "raise"

\* update_technology retrying after any OperationalError
tally_on_error_RetryAny(kind, attempt) ==
    CASE kind \in {"locked", "operr"} /\ attempt < max_retries - 1 -> "retry"
      [] kind \in {"locked", "operr"} -> "return"
      [] kind = "error" -> "return"
      [] OTHER -> "raise"

\* the except clauses of update_technology and decrease_technology_count
tally_on_error(kind, attempt) ==
    CASE kind = "locked" /\ attempt < max_retries - 1 -> "retry"
      [] kind \in {"locked", "operr"} -> "return"
      [] kind = "error" -> "return"
      [] OTHER -> "raise"

\* the `except Exception` of update_repository and delete_repository:
\* print and return False
single_on_error(kind, attempt) == "return"

on_error(fn, kind, attempt) ==
    IF fn = "add_repository" THEN add_repository_on_error(kind, attempt)
    ELSE IF fn \in {"update_repository", "delete_repository"}
         THEN single_on_error(kind, attempt)
    ELSE tally_on_error(kind, attempt)

InitRetry == Init /\ backend = "sqlite"

StartLoop(c, fn, name) ==
    [c EXCEPT !.fn = fn, !.name = name, !.attempt = 0,
              !.retry_delay = InitialRetryDelay, !.slept = <<>>, !.locked = 0]

\* the names add_repository passes to update_technology, in order
AddPending(repo_data) ==
    LET cm == repo_data.custom_metadata
        lang == IF Truthy(repo_data.language) THEN << repo_data.language >> ELSE <<>>
    IN IF Kind(cm) = "obj" /\ JTruthy(DictGet(cm, "tech_stack"))
       THEN lang \o TechStackNames(DictGet(cm, "tech_stack"))
       ELSE lang

BeginAdd(repo_url, repo_data) ==
    /\ call.op = "idle" /\ call.calls < MaxCalls
    /\ call' = [StartLoop(call, "add_repository", "") EXCEPT
                   !.op = "add", !.url = repo_url, !.data = repo_data,
                   !.pending = <<>>, !.raises = FALSE, !.calls = @ + 1,
                   !.before = techs]
    /\ UNCHANGED <<backend, repos, techs, nextId, nextKey, clock, ret, logical, others, refresh>>

BeginTally(op, name) ==
    /\ call.op = "idle" /\ call.calls < MaxCalls
    /\ call' = [StartLoop(call, IF op = "inc" THEN "update_technology"
                                ELSE "decrease_technology_count", name) EXCEPT
                   !.op = op, !.url = name, !.data = NoData,
                   !.pending = <<>>, !.raises = FALSE, !.calls = @ + 1,
                   !.before = techs]
    /\ UNCHANGED <<backend, repos, techs, nextId, nextKey, clock, ret, logical, others, refresh>>

\* the operation returns `result` to its caller
Finish(c, result, existed) ==
    /\ call' = [c EXCEPT !.op = "idle", !.fn = "none", !.name = "", !.pending = <<>>,
                         !.raises = FALSE, !.attempt = 0, !.retry_delay = 0,
                         !.slept = <<>>, !.locked = 0]
    /\ Record(Call(c.op, c.url, c.data, result, existed, <<>>, <<>>))

\* the running loop ends; c.last says how
EndLoop(c, locked, ok) ==
    [c EXCEPT !.last = Loop(c.fn, c.attempt + 1, locked, c.slept, ok)]

\* after a tally function returned: the next technology of the add, the
\* DELETE of delete_repository, or the end of the operation
AfterTally(c) ==
    IF c.op = "add"
    THEN IF c.pending # <<>>
         THEN /\ call' = [StartLoop(c, "update_technology", Head(c.pending)) EXCEPT
                             !.pending = Tail(c.pending)]
              /\ UNCHANGED ret
         ELSE Finish(c, ~c.raises, FALSE)
    ELSE IF c.op = "delete"
         THEN /\ call' = StartLoop(c, "delete_repository", "")
              /\ UNCHANGED ret
    ELSE Finish(c, FALSE, FALSE)

\* an attempt of add_repository that meets no error
AddAttemptOk(c) ==
    LET st == CurrentStore IN
    IF AddExists(st, c.url) \/ UniqueViolation(backend, st, c.url)
    THEN /\ Finish(EndLoop(c, c.locked, FALSE), FALSE, TRUE)
         /\ UNCHANGED <<repos, techs, nextId, nextKey>>
    ELSE /\ nextId <= MaxId
         /\ SetStore(InsertRecord(st, c.url, c.data, clock))
         /\ AfterTally([EndLoop(c, c.locked, TRUE) EXCEPT
                           !.pending = AddPending(c.data),
                           !.raises = Kind(c.data.custom_metadata) # "obj"])

\* an attempt of update_technology / decrease_technology_count that meets no
\* error
TallyAttemptOk(c) ==
    /\ SetStore(IF c.fn = "update_technology"
                THEN sqlite_update_technology(CurrentStore, c.name)
                ELSE sqlite_decrease_technology_count(CurrentStore, c.name))
    /\ AfterTally(EndLoop(c, c.locked, TRUE))

\* the attempt of update_repository that meets no error
UpdateAttemptOk(c) ==
    LET r == update_repository(backend, CurrentStore, c.url, c.data, clock) IN
    /\ SetStore(r.st)
    /\ Finish(EndLoop(c, c.locked, r.result), r.result, AddExists(CurrentStore, c.url))

\* the DELETE and commit of delete_repository meeting no error
DeleteAttemptOk(c) ==
    /\ repos' = repos \ FindByUrl(repos, c.url)
    /\ UNCHANGED <<techs, nextId, nextKey>>
    /\ Finish(EndLoop(c, c.locked, TRUE), TRUE, TRUE)

\* the function whose loop runs returns without having written
ReturnFailed(c) ==
    IF c.fn \in {"add_repository", "update_repository", "delete_repository"}
    THEN Finish(c, FALSE, AddExists(CurrentStore, c.url))
    ELSE AfterTally(c)

\* an attempt that fails with `kind`
AttemptFails(c0, kind) ==
    LET locked == c0.locked + (IF kind = "locked" THEN 1 ELSE 0)
        todo == on_error(c0.fn, kind, c0.attempt)
    IN /\ UNCHANGED <<repos, techs, nextId, nextKey>>
       /\ CASE todo = "retry" ->
                 \* time.sleep(retry_delay); retry_delay *= 1.5; continue
                 LET c == [c0 EXCEPT !.slept = Append(@, c0.retry_delay),
                                     !.retry_delay = Backoff(@),
                                     !.locked = locked]
                 IN IF c0.attempt + 1 < max_retries
                    THEN /\ call' = [c EXCEPT !.attempt = @ + 1]
                         /\ UNCHANGED ret
                    ELSE \* the for loop is exhausted
                         ReturnFailed(EndLoop(c, locked, FALSE))
            [] todo = "return" -> ReturnFailed(EndLoop(c0, locked, FALSE))
            [] todo = "raise" ->
                 /\ call' = [EndLoop(c0, locked, FALSE) EXCEPT !.raised = TRUE]
                 /\ UNCHANGED ret

Attempt(outcome) ==
    LET c == [call EXCEPT !.outcome = outcome] IN
    /\ call.fn # "none" /\ ~call.raised
    /\ IF outcome = "ok"
       THEN CASE c.fn = "add_repository" -> AddAttemptOk(c)
              [] c.fn = "update_repository" -> UpdateAttemptOk(c)
              [] c.fn = "delete_repository" -> DeleteAttemptOk(c)
              [] OTHER -> TallyAttemptOk(c)
       ELSE IF outcome = "noconn"
            THEN \* conn is None: return False / return
                 /\ UNCHANGED <<repos, techs, nextId, nextKey>>
                 /\ ReturnFailed(EndLoop(c, c.locked, FALSE))
            ELSE AttemptFails(c, outcome)
    /\ UNCHANGED <<backend, clock, logical, others, refresh>>

BeginUpdate(repo_url, repo_data) ==
    /\ call.op = "idle" /\ call.calls < MaxCalls
    /\ call' = [StartLoop(call, "update_repository", "") EXCEPT
                   !.op = "update", !.url = repo_url, !.data = repo_data,
                   !.pending = <<>>, !.raises = FALSE, !.calls = @ + 1,
                   !.before = techs]
    /\ UNCHANGED <<backend, repos, techs, nextId, nextKey, clock, ret, logical, others, refresh>>

\* delete_repository up to its first write: the SELECT, `if not repo:
\* return False`, the call of decrease_technology_count
BeginDelete(repo_url) ==
    LET found == FindByUrl(repos, repo_url)
        c == [call EXCEPT !.op = "delete", !.url = repo_url, !.data = NoData,
                          !.pending = <<>>, !.raises = FALSE, !.calls = @ + 1,
                   !.before = techs]
    IN /\ call.op = "idle" /\ call.calls < MaxCalls
       /\ IF found = {}
          THEN Finish(c, FALSE, FALSE)
          ELSE /\ call' = IF Truthy(FirstRepo(found).language)
                          THEN StartLoop(c, "decrease_technology_count",
                                         FirstRepo(found).language)
                          ELSE StartLoop(c, "delete_repository", "")
               /\ UNCHANGED ret
       /\ UNCHANGED <<backend, repos, techs, nextId, nextKey, clock, logical, others, refresh>>

NextRetry ==
    \/ \E u \in Urls, d \in FetchedData : BeginAdd(u, d)
    \/ \E name \in TechNames : BeginTally("inc", name)
    \/ \E name \in TechNames : BeginTally("dec", name)
    \/ \E o \in AttemptOutcomes : Attempt(o)

SpecRetry == InitRetry /\ [][NextRetry]_vars

\* the retried writes together with update_repository and delete_repository
WritesData == {DataGo, DataNoLang}

NextWrites ==
    \/ \E u \in Urls, d \in WritesData : BeginAdd(u, d)
    \/ \E u \in Urls, d \in WritesData : BeginUpdate(u, d)
    \/ \E u \in Urls : BeginDelete(u)
    \/ \E o \in AttemptOutcomes : Attempt(o)

SpecWrites == InitRetry /\ [][NextWrites]_vars

\* C8: a retry loop that met "database is locked" at every attempt made
\* exactly 5 attempts with 4 sleeps between them and ended without its
\* write; no loop makes a sixth attempt and no exception leaves an
\* operation.
C8_BackoffBound ==
    /\ call.attempt + 1 <= max_retries
    /\ call.last.attempts <= max_retries
    /\ ~call.raised
    /\ (call.last.fn # "none" /\ call.last.locked = call.last.attempts)
         => (/\ call.last.attempts = 5
             /\ Len(call.last.slept) = 4
             /\ ~call.last.ok)
    /\ (ret.op = "add" /\ call.op = "idle" /\ call.last.fn = "add_repository"
          /\ call.last.locked = call.last.attempts)
         => ret.result = FALSE

\* add_repository gave up after contention at every attempt
C8_Witness ==
    /\ call.op = "idle" /\ ret.op = "add" /\ ~ret.result
    /\ call.last = Loop("add_repository", 5, 5, call.last.slept, FALSE)
    /\ Len(call.last.slept) = 4
    /\ repos = {}

(***************************************************************************)
(* Refresh All of app_fixed.py, one url per step (SpecRefresh).  A fetch   *)
(* either returns data or fails (repository not found, rate limit, any     *)
(* other exception); update_repository either runs or meets a storage      *)
(* exception.                                                              *)
(***************************************************************************)
FetchOutcomes == {"ok", "404", "403", "error"}

\* what the repositories held when they were added, and what GitHub returns
\* for them at the time of the refresh
StoredData == {DataGo}
RefreshedData == {DataPy, DataNoLang}

\* get_repo_info: the data, or None after an st.error
get_repo_info(outcome, repo_data) ==
    IF outcome = "ok"
    THEN [ok |-> TRUE, data |-> repo_data, error |-> "none"]
    ELSE [ok |-> FALSE, data |-> NoData, error |-> outcome]

\* update_repository with its try/except: a storage exception is printed and
\* False returned
update_repository_guarded(b, st, repo_url, repo_data, now, fault) ==
    IF fault THEN Returned(st, FALSE)
    ELSE update_repository(b, st, repo_url, repo_data, now)

RefreshAfterFailedFetch_Abort(r, url, error) ==
    [r EXCEPT !.todo = <<>>,
              !.failed = @ \cup {url},
              !.errors = Append(@, [url |-> url, kind |-> error])]

\* the loop after get_repo_info returned None for `url`: `if repo_data:` is
\* false and the loop goes on to the next url
RefreshAfterFailedFetch(r, url, error) ==
    [r EXCEPT !.todo = Tail(@),
              !.failed = @ \cup {url},
              !.errors = Append(@, [url |-> url, kind |-> error])]

\* the loop after update_repository returned for `url`: the result is not
\* looked at
RefreshAfterUpdate(r, url, repo_data, result) ==
    [r EXCEPT !.todo = Tail(@),
              !.passed = @ \cup {[url |-> url, data |-> repo_data]},
              !.updated = IF result THEN @ \cup {[url |-> url, data |-> repo_data]} ELSE @,
              !.errors = IF result THEN @
                         ELSE Append(@, [url |-> url, kind |-> "update"])]

\* repos = db.get_all_repositories()
RefreshBegin ==
    /\ refresh.pc = "idle"
    /\ \E v \in get_all_repositories(CurrentStore) :
          refresh' = [IdleRefresh EXCEPT !.pc = "loop",
                         !.listed = [i \in DOMAIN v |-> v[i].repo_url],
                         !.todo = [i \in DOMAIN v |-> v[i].repo_url]]
    /\ UNCHANGED <<backend, repos, techs, nextId, nextKey, clock, ret, logical, others, call>>

\* one pass of the loop body
RefreshStep(outcome, repo_data, fault) ==
    /\ refresh.pc = "loop" /\ refresh.todo # <<>>
    /\ LET url == Head(refresh.todo)
           got == get_repo_info(outcome, repo_data)
       IN IF ~got.ok
          THEN /\ refresh' = RefreshAfterFailedFetch(refresh, url, got.error)
               /\ UNCHANGED <<repos, techs, nextId, nextKey>>
          ELSE LET r == update_repository_guarded(backend, CurrentStore, url,
                                                  got.data, clock, fault)
               IN /\ SetStore(r.st)
                  /\ refresh' = RefreshAfterUpdate(refresh, url, got.data, r.result)
    /\ UNCHANGED <<backend, clock, ret, logical, others, call>>

\* the loop is over: st.success("All repositories refreshed")
RefreshEnd ==
    /\ refresh.pc = "loop" /\ refresh.todo = <<>>
    /\ refresh' = [refresh EXCEPT !.pc = "done"]
    /\ UNCHANGED <<backend, repos, techs, nextId, nextKey, clock, ret, logical, others, call>>

\* st.rerun(): the page is drawn again
RefreshRerun ==
    /\ refresh.pc = "done"
    /\ refresh' = IdleRefresh
    /\ UNCHANGED <<backend, repos, techs, nextId, nextKey, clock, ret, logical, others, call>>

NextRefresh ==
    \/ \E u \in Urls, d \in StoredData : refresh.pc = "idle" /\ AddRepository(u, d)
    \/ \E u \in Urls : refresh.pc = "idle" /\ DeleteRepository(u)
    \/ RefreshRerun
    \/ RefreshBegin
    \/ \E o \in FetchOutcomes, d \in RefreshedData, fault \in BOOLEAN : RefreshStep(o, d, fault)
    \/ RefreshEnd

SpecRefresh == Init /\ [][NextRefresh]_vars

Range(seq) == {seq[i] : i \in DOMAIN seq}
UpdateFailed(r) == {p.url : p \in r.passed \ r.updated}

\* C9: Refresh All visits every listed url; every url whose fetch succeeded
\* is passed to update_repository and, unless that update itself failed, is
\* updated in the store; exactly the failing urls are reported, once each;
\* nothing is raised.
C9_RefreshIsolatesFailures ==
    /\ ~refresh.raised
    /\ refresh.pc # "idle" =>
         \* no url is skipped: the urls not yet visited are a tail of the list
         /\ Len(refresh.listed)
              = Cardinality(refresh.failed) + Cardinality(refresh.passed) + Len(refresh.todo)
         /\ refresh.failed \cup {p.url : p \in refresh.passed} \cup Range(refresh.todo)
              = Range(refresh.listed)
    /\ refresh.pc = "done" =>
         /\ {p.url : p \in refresh.passed} = Range(refresh.listed) \ refresh.failed
         /\ \A p \in refresh.updated :
               \E r \in repos :
                   /\ r.repo_url = p.url
                   /\ r = BuildRecord(r.id, p.url, p.data, r.last_synced)
         /\ {e.url : e \in Range(refresh.errors)} = refresh.failed \cup UpdateFailed(refresh)
         /\ Len(refresh.errors)
              = Cardinality(refresh.failed) + Cardinality(UpdateFailed(refresh))

\* of two stored urls one was refreshed although the fetch of the other
\* failed before it
C9_Witness ==
    /\ refresh.pc = "done"
    /\ Len(refresh.listed) = 2
    /\ refresh.failed = {refresh.listed[1]}
    /\ \E p \in refresh.updated : p.url = refresh.listed[2]
    /\ Len(refresh.errors) = 1

(***************************************************************************)
(* Adding a repository from the page (SpecApp): the url the user typed is  *)
(* passed to get_repo_info and then to add_repository.  A url is a string; *)
(* UrlText gives its characters, cut into the pieces the normalisation     *)
(* tells apart: the base "github.com/owner/repo", "/", ".git", a query     *)
(* string "?x" and a blank " ".                                            *)
(***************************************************************************)
RawUrls == {"r", "r/", "r.git", "r?x", " r", "q"}

UrlText(url) ==
    CASE url = "r"     -> << "github.com/o/r" >>
      [] url = "r/"    -> << "github.com/o/r", "/" >>
      [] url = "r.git" -> << "github.com/o/r", ".git" >>
      [] url = "r?x"   -> << "github.com/o/r", "?x" >>
      [] url = " r"    -> << " ", "github.com/o/r" >>
      [] url = "q"     -> << "example.org/q" >>

RECURSIVE lstrip(_, _), rstrip(_, _)
\* str.lstrip / str.rstrip of the piece c
lstrip(text, c) ==
    IF text # <<>> /\ Head(text) = c THEN lstrip(Tail(text), c) ELSE text
rstrip(text, c) ==
    IF text # <<>> /\ text[Len(text)] = c
    THEN rstrip(SubSeq(text, 1, Len(text) - 1), c) ELSE text

\* repo_url.strip().rstrip('/'), then the '.git' suffix removed
normalize_repo_url(text) ==
    LET t == rstrip(rstrip(lstrip(text, " "), " "), "/")
    IN IF t # <<>> /\ t[Len(t)] = ".git" THEN SubSeq(t, 1, Len(t) - 1) ELSE t

\* re.search(pattern, repo_url): the owner/repo matched, <<>> for no match.
\* The repository name runs up to the next "/", blank, "?" or "#".
match_repo(text) ==
    LET hits == {i \in DOMAIN text : text[i] = "github.com/o/r"} IN
    IF hits = {} THEN <<>>
    ELSE LET i == CHOOSE k \in hits : \A j \in hits : k <= j
         IN IF i < Len(text) /\ text[i + 1] = ".git"
            THEN << "o/r", ".git" >> ELSE << "o/r" >>

\* the url add_repository is called with: new_repo_url as typed
AddedUrl(new_repo_url) == new_repo_url

\* `if add_button and new_repo_url:` of the page
AppAdd(new_repo_url, outcome, repo_data) ==
    LET m == match_repo(normalize_repo_url(UrlText(new_repo_url)))
        got == get_repo_info(IF m = <<>> THEN "invalid" ELSE outcome, repo_data)
    IN IF ~got.ok
       THEN /\ Record(Call("fetch", new_repo_url, NoData, FALSE,
                           AddExists(CurrentStore, new_repo_url), <<>>, <<>>))
            /\ UNCHANGED <<backend, repos, techs, nextId, nextKey, clock, logical, others,
                           call, refresh>>
       ELSE AddRepository(AddedUrl(new_repo_url), got.data)

NextApp ==
    \/ \E u \in RawUrls, o \in FetchOutcomes, d \in TimedData : AppAdd(u, o, d)
    \/ \E u \in RawUrls : DeleteRepository(u)

SpecApp == Init /\ [][NextApp]_vars

\* a url that normalisation leaves alone and that has no query string
IsNormalised(url) ==
    /\ normalize_repo_url(UrlText(url)) = UrlText(url)
    /\ \A i \in DOMAIN UrlText(url) : UrlText(url)[i] # "?x"

\* the repository a url names, whatever its decorations
Canonical(url) == match_repo(normalize_repo_url(UrlText(url)))

\* C11 (as claimed): every stored repo_url is normalised (no surrounding
\* blank, no trailing slash, no .git suffix, no query string), and no two
\* stored urls differ only in those decorations.
C11_StoredUrlsNormalised ==
    /\ \A r \in repos : IsNormalised(r.repo_url)
    /\ \A r1, r2 \in repos :
          Canonical(r1.repo_url) = Canonical(r2.repo_url) => r1 = r2

(***************************************************************************)
(* Properties of update_repository and get_all_repositories.               *)
(***************************************************************************)
\* C12: update_repository changes no technology entry, whatever it returns
\* and whatever the new language and tech_stack are.
C12_UpdateLeavesTally ==
    [][ret'.op = "update" => (techs' = techs /\ nextKey' = nextKey)]_vars

\* a record of language Go was updated to language Python: Python has no
\* entry and Go keeps its two counts
C12_Witness ==
    /\ ret.op = "update" /\ ret.result /\ ret.data = DataPy
    /\ \E r \in repos : r.repo_url = ret.url /\ r.language = "Python"
    /\ TallyCount(techs, "Python") = 0
    /\ TallyCount(techs, "Go") = 2

\* C13: update_repository(U, D) on a stored url overwrites name, owner,
\* description, stars, forks, language, last_updated, last_synced and
\* metadata from D, keeps the record's key and repo_url and the number of
\* records; on a url without a record it returns False and creates nothing.
C13_UpdateInPlace ==
    [][(ret'.op = "update" /\ clock' = clock) =>
        IF ret'.existed
        THEN /\ ret'.result = TRUE
             /\ Cardinality(repos') = Cardinality(repos)
             /\ nextId' = nextId
             /\ \E old \in repos : \E new \in repos' :
                   /\ old.repo_url = ret'.url
                   /\ repos' \ {new} = repos \ {old}
                   /\ new.id = old.id
                   /\ new.repo_url = old.repo_url
                   /\ new.name = ret'.data.name
                   /\ new.owner = ret'.data.owner.login
                   /\ new.description = ret'.data.description
                   /\ new.stars = ret'.data.stars
                   /\ new.forks = ret'.data.forks
                   /\ new.language = ret'.data.language
                   /\ new.last_updated = ret'.data.updated_at
                   /\ new.last_synced = clock
                   /\ new.metadata = dumps(ret'.data.custom_metadata)
        ELSE /\ ret'.result = FALSE
             /\ repos' = repos
             /\ nextId' = nextId]_vars

\* the first of two records was updated at a later time with other data
C13_Witness ==
    /\ ret.op = "update" /\ ret.result /\ ret.data = DataPy
    /\ Cardinality(repos) = 2
    /\ \E r \in repos :
          /\ r.repo_url = ret.url /\ r.id = 1
          /\ r.name = DataPy.name /\ r.last_synced = 1
    /\ \E r \in repos : r.id = 2 /\ r.name = DataGo.name /\ r.last_synced = 0

StoreOps == {"add", "update", "list", "get", "delete", "inc", "dec", "stats"}
Faults == {"noconn", "locked", "operr", "error"}

\* the functions of database.py that test `if conn is None`
ChecksConnection == {"add", "inc", "dec", "stats"}
\* the functions of database.py with `except sqlite3.OperationalError`
HasRetryLoop == {"add", "inc", "dec", "stats"}

\* get_db_connection of database.py: sqlite3.Error is caught and None
\* returned
get_db_connection(fault) == IF fault = "noconn" THEN None ELSE "conn"

\* the exception raised inside the try block of the function ("none": the
\* function returns by itself)
ExceptionOf(b, op, fault) ==
    IF b = "sqlite"
    THEN CASE fault = "noconn" ->
                IF get_db_connection(fault) = None /\ op \in ChecksConnection
                THEN "none"
                ELSE \* conn.cursor() on None
                     "AttributeError"
           [] fault \in {"locked", "operr"} -> "sqlite3.OperationalError"
           [] OTHER -> "RuntimeError"
    ELSE \* init_deta / get_db raise ValueError; the client raises its own
         CASE fault = "noconn" -> "ValueError"
           [] OTHER -> "RuntimeError"

\* handlers that catch sqlite3.Error only
Handlers_SqliteErrorOnly(b, op) == {"sqlite3.Error"}

\* the except clauses of the function
Handlers(b, op) ==
    IF b = "sqlite" /\ op \in HasRetryLoop
    THEN {"sqlite3.OperationalError", "Exception"}
    ELSE {"Exception"}

\* `except h` catches an exception of class e
Catches(h, e) ==
    \/ h = e
    \/ h = "Exception"
    \/ h = "sqlite3.Error" /\ e = "sqlite3.OperationalError"

\* a call of a store function that meets `fault`
FaultyCall(op, u, fault) ==
    LET exc == ExceptionOf(backend, op, fault)
        caught == exc = "none" \/ \E h \in Handlers(backend, op) : Catches(h, exc)
        existed == IF op \in {"inc", "dec"} THEN FindByName(techs, u) # {}
                   ELSE AddExists(CurrentStore, u)
    IN /\ ~call.raised
       /\ IF caught
          THEN \* print(...); return False / None / []
               /\ Record([Call(op, u, NoData, FALSE, existed, <<>>, <<>>)
                             EXCEPT !.fault = fault])
               /\ UNCHANGED call
          ELSE /\ call' = [call EXCEPT !.raised = TRUE]
               /\ UNCHANGED ret
       /\ UNCHANGED <<backend, repos, techs, nextId, nextKey, clock, logical, others, refresh>>

NextFault ==
    \/ \E u \in Urls, d \in StoredData : ~call.raised /\ AddRepository(u, d)
    \/ \E u \in Urls : ~call.raised /\ DeleteRepository(u)
    \/ \E op \in StoreOps \ {"inc", "dec", "list", "stats"}, u \in Urls, f \in Faults :
          FaultyCall(op, u, f)
    \/ \E op \in {"inc", "dec"}, name \in TechNames, f \in Faults : FaultyCall(op, name, f)
    \/ \E op \in {"list", "stats"}, f \in Faults : FaultyCall(op, "", f)

SpecFault == Init /\ [][NextFault]_vars

MalformedTexts ==
    { << P("{") >>,
      << P("{"), S("tech_stack") >>,
      << S("a"), S("b") >>,
      << P("]") >>,
      << P("["), S("Go"), P(","), P("]") >> }
\* the empty string (or NULL)
EmptyText == <<>>

StoredTexts == MalformedTexts \cup {EmptyText}

\* a row's metadata is overwritten from outside the store functions
ExternalEdit(repo_url, text) ==
    /\ \E r \in repos : r.repo_url = repo_url /\ r.metadata # text
    /\ repos' = {IF r.repo_url = repo_url THEN [r EXCEPT !.metadata = text] ELSE r
                 : r \in repos}
    /\ Record(Call("edit", repo_url, NoData, TRUE, TRUE, <<>>, <<>>))
    /\ UNCHANGED <<backend, techs, nextId, nextKey, clock, logical, others, call, refresh>>

NextRead ==
    \/ \E u \in Urls, d \in TimedData : AddRepository(u, d)
    \/ \E u \in Urls, t \in StoredTexts : ExternalEdit(u, t)
    \/ \E u \in Urls : GetRepository(u)
    \/ GetAllRepositories

SpecRead == Init /\ [][NextRead]_vars

\* what a reader must see of a stored row
Surfaced(r, v) ==
    /\ v.id = r.id /\ v.repo_url = r.repo_url /\ v.name = r.name
    /\ v.owner = r.owner /\ v.last_synced = r.last_synced
    /\ r.metadata \in StoredTexts => v.metadata = EmptyDict
    /\ \A d \in TimedData :
          r.metadata = dumps(d.custom_metadata) => v.metadata = d.custom_metadata

\* C16: get_repository and get_all_repositories return a record whose
\* metadata does not parse as JSON (or is empty) with metadata {}, return
\* every other record as stored, and drop none.
C16_MalformedMetadataRecovered ==
    /\ (ret.op = "get" /\ ret.existed) =>
          /\ Len(ret.value) = 1
          /\ \E r \in repos : r.repo_url = ret.url /\ Surfaced(r, ret.value[1])
    /\ ret.op = "list" =>
          /\ Len(ret.value) = Cardinality(repos)
          /\ \A r \in repos : \E i \in DOMAIN ret.value : Surfaced(r, ret.value[i])

\* of two listed records one has malformed metadata and is listed with {},
\* the other is listed with the metadata it was added with
C16_Witness ==
    /\ ret.op = "list" /\ Len(ret.value) = 2
    /\ \E r \in repos : r.metadata \in MalformedTexts
    /\ \E i \in DOMAIN ret.value : ret.value[i].metadata = EmptyDict
    /\ \E i \in DOMAIN ret.value : ret.value[i].metadata = DataGo.custom_metadata

(***************************************************************************)
(* Properties of the retry loops (SpecRetry, SpecWrites).                  *)
(***************************************************************************)
\* the latest attempt ended the loop it belonged to (call.last is that loop)
LoopJustEnded == call.outcome # "none" /\ (call.fn = "none" \/ call.attempt = 0)

\* C17: an attempt that fails with an error other than "database is locked"
\* ends its loop at once: it is the loop's last attempt, no sleep follows it
\* and the write is not made.
C17_NoRetryWithoutContention ==
    call.outcome \in {"operr", "error"} =>
        /\ LoopJustEnded
        /\ call.last.fn # "none"
        /\ ~call.last.ok
        /\ call.last.attempts = call.last.locked + 1
        /\ Len(call.last.slept) = call.last.locked
        /\ (call.op = "idle" /\ ret.op = "add" /\ call.last.fn = "add_repository")
             => ret.result = FALSE

\* add_repository met contention twice and then another OperationalError
C17_Witness ==
    /\ call.outcome = "operr"
    /\ call.op = "idle" /\ ret.op = "add" /\ ~ret.result
    /\ call.last = Loop("add_repository", 3, 2, <<10000, 15000>>, FALSE)

\* C18 (as claimed): every write of the embedded store is retried after
\* contention: a loop that contention ended had used all 5 attempts.
C18_AllWritesRetried ==
    (/\ LoopJustEnded /\ call.outcome = "locked"
     /\ call.last.fn = "update_repository" => FindByUrl(repos, call.url) # {})
        => call.last.attempts = max_retries

\* a loop that met contention at each of its 5 attempts
Exhausted(l) == l.attempts = max_retries /\ l.locked = max_retries /\ ~l.ok

\* C19 (as claimed): an add or delete whose last write exhausted its
\* retries does not return True.
C19_ExhaustionReported ==
    (/\ call.op = "idle" /\ ret.op \in {"add", "delete"}
     /\ call.outcome = "locked" /\ Exhausted(call.last))
        => ret.result = FALSE

\* 1.0, 1.5, 2.25, 3.375 in units of 0.0001 s
Schedule == <<10000, 15000, 22500, 33750>>

\* C20: the sleeps of a retry loop are 1.0, 1.5, 2.25, 3.375 in that order,
\* starting again at 1.0 in every loop, and the fifth failed attempt is
\* followed by no sleep.
C20_BackoffSchedule ==
    /\ call.fn # "none" =>
          /\ call.slept = SubSeq(Schedule, 1, call.attempt)
          /\ call.retry_delay = (Schedule \o <<50625>>)[call.attempt + 1]
    /\ Len(call.last.slept) <= 4
    /\ call.last.slept = SubSeq(Schedule, 1, Len(call.last.slept))
    /\ call.last.locked = max_retries => call.last.slept = Schedule

\* an add gave up after the four sleeps, and the next operation has slept
\* once, for 1.0
C20_Witness ==
    /\ call.calls = 2
    /\ call.last.fn = "add_repository" /\ call.last.locked = 5
    /\ call.last.slept = <<10000, 15000, 22500, 33750>>
    /\ call.fn # "none" /\ call.attempt = 1 /\ call.slept = <<10000>>

(***************************************************************************)
(* Properties of delete_repository (Spec).                                 *)
(***************************************************************************)
\* C21: delete_repository(U) on a stored url returns True and removes that
\* record and no other; the tally entry of the record's non-empty language
\* is removed if its count was <= 1 and otherwise lowered by 1; every other
\* tally entry (those of the record's tech_stack included) is unchanged.
C21_DeleteEffect ==
    [][(ret'.op = "delete" /\ ret'.existed)
       => /\ ret'.result = TRUE
          /\ nextId' = nextId /\ nextKey' = nextKey
          /\ \E rec \in repos :
                /\ rec.repo_url = ret'.url
                /\ repos' = repos \ {rec}
                /\ {t \in techs' : t.name # rec.language}
                     = {t \in techs : t.name # rec.language}
                /\ ~Truthy(rec.language) => techs' = techs
                /\ Truthy(rec.language) =>
                     \A t \in FindByName(techs, rec.language) :
                        IF t.count <= 1
                        THEN FindByName(techs', rec.language) = {}
                        ELSE FindByName(techs', rec.language)
                               = {[t EXCEPT !.count = t.count - 1]}]_vars

\* one of two records of language Go with tech_stack [Go, Docker] was
\* deleted: Go went from 4 to 3, Docker kept its 2 and the other record stays
C21_Witness ==
    /\ ret.op = "delete" /\ ret.existed /\ ret.result
    /\ Cardinality(repos) = 1
    /\ TallyCount(techs, "Go") = 3
    /\ TallyCount(techs, "Docker") = 2

(***************************************************************************)
(* Two processes on one store (SpecConc): two Streamlit sessions, or two   *)
(* instances of the app on one database.  Both make the same call at the   *)
(* same time; one step is one access to the backend (a SELECT, a fetch, a  *)
(* stream; an INSERT, UPDATE or DELETE with its commit; a put, update,     *)
(* set or delete), and the steps of the two interleave freely.             *)
(***************************************************************************)
\* technologies.name is UNIQUE in database.py: the INSERT of a second row of
\* one name raises IntegrityError
TechUniqueViolation(b, st, name) == b = "sqlite" /\ FindByName(st.techs, name) # {}

\* the read of update_technology and decrease_technology_count: the row,
\* results[0], docs[0], or nothing
ReadTechnology(st, name) ==
    LET results == FindByName(st.techs, name) IN
    IF results = {} THEN {} ELSE {First(results)}

\* the write of update_technology after its read returned `seen`
WriteIncrement(b, st, name, seen) ==
    IF seen # {}
    THEN IF b = "sqlite"
         THEN \* UPDATE technologies SET count = count + 1 WHERE name = ?
              [st EXCEPT !.techs = {IF t.name = name THEN [t EXCEPT !.count = @ + 1] ELSE t
                                    : t \in st.techs}]
         ELSE \* update({"count": tech["count"] + 1}, tech["key"]); the update
              \* of a key that is gone raises, which is caught
              LET tech == CHOOSE t \in seen : TRUE IN
              [st EXCEPT !.techs = {IF t.key = tech.key
                                    THEN [t EXCEPT !.count = tech.count + 1] ELSE t
                                    : t \in st.techs}]
    ELSE IF TechUniqueViolation(b, st, name)
         THEN \* IntegrityError, caught by `except Exception`: return
              st
         ELSE [st EXCEPT !.techs = @ \cup {[key |-> st.nextKey, name |-> name, count |-> 1]},
                         !.nextKey = @ + 1]

\* the write of decrease_technology_count of cloud_database.py and
\* firebase_database.py after its read returned `seen`
WriteDecrement(st, name, seen) ==
    IF seen = {} THEN st
    ELSE LET tech == CHOOSE t \in seen : TRUE IN
         IF tech.count <= 1
         THEN \* delete(tech["key"])
              [st EXCEPT !.techs = {t \in @ : t.key # tech.key}]
         ELSE \* update({"count": tech["count"] - 1}, tech["key"])
              [st EXCEPT !.techs = {IF t.key = tech.key
                                    THEN [t EXCEPT !.count = tech.count - 1] ELSE t
                                    : t \in st.techs}]

\* where each call starts
StartPc(op) ==
    CASE op = "inc" -> "tread"
      [] op = "add" -> "check"
      [] op = "delete" -> "lookup"

\* both processes make the call op(arg, data)
RaceBegin(op, arg, data) ==
    /\ procs.op = "none"
    /\ procs' = [op |-> op, arg |-> arg, data |-> data, base |-> CurrentStore,
                 of |-> [p \in Processes |->
                           [IdleProcess EXCEPT !.pc = StartPc(op),
                                               !.name = IF op = "inc" THEN arg ELSE ""]]]
    /\ UNCHANGED <<backend, repos, techs, nextId, nextKey, clock, ret, logical, call,
                   refresh, dest, mirror>>

SetProcess(p, l) == procs' = [procs EXCEPT !.of[p] = l]
Returns(l, result) == [l EXCEPT !.pc = "done", !.result = result]

\* the process goes on after a tally call returned
AfterTallyCall(l) ==
    CASE procs.op = "inc" -> Returns(l, FALSE)
      [] procs.op = "add" ->
           IF l.pending = <<>> THEN Returns(l, TRUE)
           ELSE [l EXCEPT !.pc = "tread", !.name = Head(l.pending),
                          !.pending = Tail(l.pending)]
      [] procs.op = "delete" -> [l EXCEPT !.pc = "remove"]

\* add_repository: the existence check
ProcCheck(p) ==
    LET l == procs.of[p] IN
    /\ l.pc = "check"
    /\ SetProcess(p, IF AddExists(CurrentStore, procs.arg)
                     THEN Returns(l, FALSE) ELSE [l EXCEPT !.pc = "insert"])
    /\ UNCHANGED <<backend, repos, techs, nextId, nextKey, clock, ret, logical, call,
                   refresh, dest, mirror>>

\* add_repository: the insert (the put, the set) and its commit
ProcInsert(p) ==
    LET l == procs.of[p] IN
    /\ l.pc = "insert"
    /\ IF UniqueViolation(backend, CurrentStore, procs.arg)
       THEN \* IntegrityError, caught by `except Exception`: return False
            /\ SetProcess(p, Returns(l, FALSE))
            /\ UNCHANGED <<repos, techs, nextId, nextKey>>
       ELSE /\ SetStore(InsertRecord(CurrentStore, procs.arg, procs.data, clock))
            /\ SetProcess(p, AfterTallyCall([l EXCEPT !.pending = AddPending(procs.data)]))
    /\ UNCHANGED <<backend, clock, ret, logical, call, refresh, dest, mirror>>

\* delete_repository: the lookup of the record
ProcLookup(p) ==
    LET l == procs.of[p]
        found == FindByUrl(repos, procs.arg)
    IN /\ l.pc = "lookup"
       /\ SetProcess(p,
             IF found = {} THEN Returns(l, FALSE)
             ELSE LET repo == FirstRepo(found) IN
                  IF Truthy(repo.language)
                  THEN [l EXCEPT !.rec = {repo}, !.name = repo.language,
                                 !.pc = IF backend = "sqlite" THEN "tdec" ELSE "tread"]
                  ELSE [l EXCEPT !.rec = {repo}, !.pc = "remove"])
       /\ UNCHANGED <<backend, repos, techs, nextId, nextKey, clock, ret, logical, call,
                      refresh, dest, mirror>>

\* update_technology, decrease_technology_count: the read
ProcTallyRead(p) ==
    LET l == procs.of[p] IN
    /\ l.pc = "tread"
    /\ SetProcess(p, [l EXCEPT !.pc = "twrite",
                               !.seen = ReadTechnology(CurrentStore, l.name)])
    /\ UNCHANGED <<backend, repos, techs, nextId, nextKey, clock, ret, logical, call,
                   refresh, dest, mirror>>

\* update_technology, decrease_technology_count: the write
ProcTallyWrite(p) ==
    LET l == procs.of[p] IN
    /\ l.pc = "twrite"
    /\ SetStore(IF procs.op = "delete"
                THEN WriteDecrement(CurrentStore, l.name, l.seen)
                ELSE WriteIncrement(backend, CurrentStore, l.name, l.seen))
    /\ SetProcess(p, AfterTallyCall(l))
    /\ UNCHANGED <<backend, clock, ret, logical, call, refresh, dest, mirror>>

\* decrease_technology_count of database.py: its UPDATE and DELETE are one
\* transaction
ProcDecrease(p) ==
    LET l == procs.of[p] IN
    /\ l.pc = "tdec"
    /\ SetStore(sqlite_decrease_technology_count(CurrentStore, l.name))
    /\ SetProcess(p, AfterTallyCall(l))
    /\ UNCHANGED <<backend, clock, ret, logical, call, refresh, dest, mirror>>

\* delete_repository: the delete of the record it looked up
ProcRemove(p) ==
    LET l == procs.of[p] IN
    /\ l.pc = "remove"
    /\ repos' = IF backend = "sqlite"
                THEN \* DELETE FROM repositories WHERE repo_url = ?
                     repos \ FindByUrl(repos, procs.arg)
                ELSE \* delete(repo["key"]) / document(doc.id).delete()
                     {r \in repos : \A x \in l.rec : r.id # x.id}
    /\ SetProcess(p, Returns(l, TRUE))
    /\ UNCHANGED <<backend, techs, nextId, nextKey, clock, ret, logical, call,
                   refresh, dest, mirror>>

NextConc ==
    \/ \E u \in Urls, d \in TimedData : procs.op = "none" /\ AddRepository(u, d)
    \/ \E u \in Urls : procs.op = "none" /\ DeleteRepository(u)
    \/ \E name \in TechNames : RaceBegin("inc", name, NoData)
    \/ \E u \in Urls, d \in TimedData : RaceBegin("add", u, d)
    \/ \E u \in Urls : RaceBegin("delete", u, NoData)
    \/ \E p \in Processes : ProcCheck(p)
    \/ \E p \in Processes : ProcInsert(p)
    \/ \E p \in Processes : ProcLookup(p)
    \/ \E p \in Processes : ProcTallyRead(p)
    \/ \E p \in Processes : ProcTallyWrite(p)
    \/ \E p \in Processes : ProcDecrease(p)
    \/ \E p \in Processes : ProcRemove(p)

SpecConc == Init /\ [][NextConc]_vars

\* both processes have returned
RaceDone == procs.op # "none" /\ \A p \in Processes : procs.of[p].pc = "done"

\* C22 (as claimed): after two concurrent update_technology(T) the count of
\* T is 2 higher than before and T has exactly one entry.
C22_ConcurrentIncrements ==
    (RaceDone /\ procs.op = "inc")
       => /\ TallyCount(techs, procs.arg) = TallyCount(procs.base.techs, procs.arg) + 2
          /\ Cardinality(FindByName(techs, procs.arg)) = 1

\* the processes whose call returned True
ReturnedTrue == {p \in Processes : procs.of[p].pc = "done" /\ procs.of[p].result}

\* C23 (as claimed): after two concurrent add_repository(U, D) of a url
\* without a record exactly one record of U exists and at most one of the
\* calls returned True.
C23_ConcurrentAddsUnique ==
    (RaceDone /\ procs.op = "add" /\ FindByUrl(procs.base.repos, procs.arg) = {})
       => /\ Cardinality(FindByUrl(repos, procs.arg)) = 1
          /\ Cardinality(ReturnedTrue) <= 1

\* the count a tally entry has after one decrement
Decremented(count) == IF count <= 1 THEN 0 ELSE count - 1

\* C28 (as claimed): after two concurrent delete_repository(U) of a stored
\* url of language L the record is gone, the count of L is lower by exactly
\* 1 and at most one of the calls returned True.
C28_ConcurrentDeletesOnce ==
    (RaceDone /\ procs.op = "delete")
       => \A r \in FindByUrl(procs.base.repos, procs.arg) :
             Truthy(r.language) =>
                /\ FindByUrl(repos, procs.arg) = {}
                /\ TallyCount(techs, r.language)
                     = Decremented(TallyCount(procs.base.techs, r.language))
                /\ Cardinality(ReturnedTrue) <= 1

(***************************************************************************)
(* The three backends side by side (SpecEquiv): every call is made with    *)
(* the same arguments, at the same time, on the embedded store, the item   *)
(* store and the document store, each starting empty.                      *)
(***************************************************************************)
EquivData == {DataGo, DataNoLang, DataArrayMeta}

\* a call was made on every backend; r[b] is what it did on backend b: the
\* store after it, its result and the values it may return
OnEveryBackend(r) ==
    mirror' = [b \in Backends |->
                 [st |-> r[b].st, out |-> [result |-> r[b].result, value |-> r[b].value]]]

Wrote(r) == [st |-> r.st, result |-> r.result, value |-> {}]
ReadValues(st, values) == [st |-> st, result |-> values # {<<>>}, value |-> values]

MirrorAdd(repo_url, repo_data) ==
    LET r == [b \in Backends |->
                Wrote(add_repository(b, mirror[b].st, repo_url, repo_data, clock))] IN
    /\ \A b \in Backends :
          AddExists(mirror[b].st, repo_url) \/ mirror[b].st.nextId <= MaxId
    /\ OnEveryBackend(r)
    /\ Record(Call("add", repo_url, repo_data, FALSE, FALSE, <<>>, <<>>))
    /\ UNCHANGED <<backend, repos, techs, nextId, nextKey, clock, logical, call,
                   refresh, procs, dest>>

MirrorUpdate(repo_url, repo_data) ==
    LET r == [b \in Backends |->
                Wrote(update_repository(b, mirror[b].st, repo_url, repo_data, clock))] IN
    /\ OnEveryBackend(r)
    /\ Record(Call("update", repo_url, repo_data, FALSE, FALSE, <<>>, <<>>))
    /\ UNCHANGED <<backend, repos, techs, nextId, nextKey, clock, logical, call,
                   refresh, procs, dest>>

MirrorDelete(repo_url) ==
    LET r == [b \in Backends |->
                Wrote(delete_repository(b, mirror[b].st, repo_url))] IN
    /\ OnEveryBackend(r)
    /\ Record(Call("delete", repo_url, NoData, FALSE, FALSE, <<>>, <<>>))
    /\ UNCHANGED <<backend, repos, techs, nextId, nextKey, clock, logical, call,
                   refresh, procs, dest>>

MirrorGet(repo_url) ==
    LET r == [b \in Backends |->
                ReadValues(mirror[b].st, {get_repository(mirror[b].st, repo_url)})] IN
    /\ OnEveryBackend(r)
    /\ Record(Call("get", repo_url, NoData, FALSE, FALSE, <<>>, <<>>))
    /\ UNCHANGED <<backend, repos, techs, nextId, nextKey, clock, logical, call,
                   refresh, procs, dest>>

MirrorList ==
    LET r == [b \in Backends |->
                ReadValues(mirror[b].st, get_all_repositories(mirror[b].st))] IN
    /\ OnEveryBackend(r)
    /\ Record(Call("list", "", NoData, FALSE, FALSE, <<>>, <<>>))
    /\ UNCHANGED <<backend, repos, techs, nextId, nextKey, clock, logical, call,
                   refresh, procs, dest>>

MirrorStats ==
    LET r == [b \in Backends |->
                ReadValues(mirror[b].st, get_technology_stats(mirror[b].st))] IN
    /\ OnEveryBackend(r)
    /\ Record(Call("stats", "", NoData, FALSE, FALSE, <<>>, <<>>))
    /\ UNCHANGED <<backend, repos, techs, nextId, nextKey, clock, logical, call,
                   refresh, procs, dest>>

NextEquiv ==
    \/ Tick
    \/ \E u \in Urls, d \in EquivData : MirrorAdd(u, d)
    \/ \E u \in Urls, d \in EquivData : MirrorUpdate(u, d)
    \/ \E u \in Urls : MirrorDelete(u)
    \/ \E u \in Urls : MirrorGet(u)
    \/ MirrorList
    \/ MirrorStats

\* `backend` plays no part here: every call is made on all three
InitEquiv == Init /\ backend = "sqlite"

SpecEquiv == InitEquiv /\ [][NextEquiv]_vars

\* a record without its backend-assigned id and its last_synced
Observable(r) == [r EXCEPT !.id = 0, !.last_synced = 0]
\* a returned value (a listing of records or of tally entries, or None)
\* without the ids and last_synced of its records
ObservableValue(v) ==
    [i \in DOMAIN v |-> IF "repo_url" \in DOMAIN v[i] THEN Observable(v[i]) ELSE v[i]]

\* what a backend shows: its records, its tally, what its last call returned
Shown(m) ==
    [records |-> {Observable(r) : r \in m.st.repos},
     tally |-> {[name |-> t.name, count |-> t.count] : t \in m.st.techs},
     result |-> m.out.result,
     value |-> {ObservableValue(v) : v \in m.out.value}]

C25_FailedAddLeavesStore ==
    [][(ret'.op = "add" /\ ~ret'.result)
       => (repos' = repos /\ techs' = techs /\ nextId' = nextId /\ nextKey' = nextKey)]_vars

\* C26 (as claimed): a delete_repository that returns False has changed no
\* tally entry.
C26_FailedDeleteLeavesTally ==
    (call.op = "idle" /\ ret.op = "delete" /\ ~ret.result) => techs = call.before

\* C27 (as claimed): every stored record of a non-empty language L has a
\* tally entry of L with count >= 1.
C27_LanguageTallied ==
    \A r \in repos : Truthy(r.language) => TallyCount(techs, r.language) >= 1

(***************************************************************************)
(* Migration of the embedded store to Firestore (SpecFirebaseMigration):   *)
(* migrate_from_sqlite_to_firebase of migrate_to_firebase.py.  The source  *)
(* is the embedded store (repos, techs); dest is the Firestore database,   *)
(* which the app may also have written to.                                 *)
(***************************************************************************)
SourceData == {DataGo, DataArrayMeta}
DestData == {DataPy}

\* the source of a migration is github_projects.db
InitMigrate == Init /\ backend = "sqlite"

\* the metadata of a listed record: json.loads again if it is a str (a str
\* that is not itself JSON text gives {})
MigratedMetadata(metadata) ==
    IF Kind(metadata) = "str" THEN EmptyDict ELSE metadata

\* the repo_data built from a record get_all_repositories returned
MigratedData(repo) ==
    RepoData(repo.name, repo.owner, repo.description, repo.stars, repo.forks,
             repo.language, repo.last_updated, MigratedMetadata(repo.metadata))

RECURSIVE MigrateRepositories(_, _, _)
\* `for repo in repositories`: a url Firestore has is skipped, any other is
\* passed to firebase_db.add_repository
MigrateRepositories(dst, repositories, now) ==
    IF repositories = <<>> THEN dst
    ELSE LET repo == Head(repositories) IN
         IF get_repository(dst, repo.repo_url) # <<>>
         THEN MigrateRepositories(dst, Tail(repositories), now)
         ELSE MigrateRepositories(
                  add_repository("firebase", dst, repo.repo_url, MigratedData(repo), now).st,
                  Tail(repositories), now)

\* the technology loop adding the count to the one Firestore has
MigrateTechnology_Accumulate(dst, tech) ==
    LET docs == FindByName(dst.techs, tech.name) IN
    IF docs # {}
    THEN LET doc == First(docs) IN
         [dst EXCEPT !.techs = (@ \ {doc}) \cup {[doc EXCEPT !.count = @ + tech.count]}]
    ELSE [dst EXCEPT !.techs = @ \cup {[key |-> dst.nextKey, name |-> tech.name,
                                        count |-> tech.count]},
                     !.nextKey = @ + 1]

\* one pass of `for tech in technologies`: the count of an existing document
\* is overwritten, a missing one is added
MigrateTechnology(dst, tech) ==
    LET docs == FindByName(dst.techs, tech.name) IN
    IF docs # {}
    THEN LET doc == First(docs) IN
         [dst EXCEPT !.techs = (@ \ {doc}) \cup {[doc EXCEPT !.count = tech.count]}]
    ELSE [dst EXCEPT !.techs = @ \cup {[key |-> dst.nextKey, name |-> tech.name,
                                        count |-> tech.count]},
                     !.nextKey = @ + 1]

RECURSIVE MigrateTechnologies(_, _)
MigrateTechnologies(dst, technologies) ==
    IF technologies = <<>> THEN dst
    ELSE MigrateTechnologies(MigrateTechnology(dst, Head(technologies)), Tail(technologies))

\* the source urls Firestore has no record of
Missing(dst) == {r.repo_url : r \in {x \in repos : FindByUrl(dst.repos, x.repo_url) = {}}}

\* migrate_from_sqlite_to_firebase(), no call of it failing.  The order of
\* SELECT name, count FROM technologies is any.
MigrateToFirebase ==
    /\ dest.nextId + Cardinality(Missing(dest)) <= MaxId + 1
    /\ \E repositories \in get_all_repositories(CurrentStore), technologies \in Perms(techs) :
          dest' = MigrateTechnologies(MigrateRepositories(dest, repositories, clock),
                                      technologies)
    /\ Record(Call("migrate", "", NoData, TRUE, Missing(dest) = {}, <<>>, <<>>))
    /\ UNCHANGED <<backend, repos, techs, nextId, nextKey, clock, logical, call,
                   refresh, procs, mirror>>

\* the app on Firestore adds a repository
DestAdd(repo_url, repo_data) ==
    LET r == add_repository("firebase", dest, repo_url, repo_data, clock) IN
    /\ AddExists(dest, repo_url) \/ dest.nextId <= MaxId
    /\ dest' = r.st
    /\ Record(Call("dest_add", repo_url, repo_data, r.result, AddExists(dest, repo_url),
                   <<>>, <<>>))
    /\ UNCHANGED <<backend, repos, techs, nextId, nextKey, clock, logical, call,
                   refresh, procs, mirror>>

NextFirebaseMigration ==
    \/ \E u \in Urls, d \in SourceData : AddRepository(u, d)
    \/ \E u \in Urls, d \in DestData : UpdateRepository(u, d)
    \/ \E u \in Urls : DeleteRepository(u)
    \/ \E u \in Urls, d \in DestData : DestAdd(u, d)
    \/ MigrateToFirebase

SpecFirebaseMigration == InitMigrate /\ [][NextFirebaseMigration]_vars

\* C29: after a migration every url of the embedded store has exactly one
\* record in Firestore and every technology of the embedded tally has the
\* same count there, in one entry; a migration that follows a migration
\* changes no Firestore record and no Firestore technology entry.
C29_FirebaseMigration ==
    [][ret'.op = "migrate"
       => /\ ret'.result
          /\ \A r \in repos : Cardinality(FindByUrl(dest'.repos, r.repo_url)) = 1
          /\ \A t \in techs :
                /\ Cardinality(FindByName(dest'.techs, t.name)) = 1
                /\ TallyCount(dest'.techs, t.name) = t.count
          /\ ret.op = "migrate" => dest' = dest]_vars

\* a migration that found the one source url in Firestore: its count of Go
\* is the 3 of the source, not the 2 that its own add of the record counted
C29_Witness ==
    /\ ret.op = "migrate" /\ ret.existed
    /\ Cardinality(repos) = 1 /\ Cardinality(dest.repos) = 1
    /\ TallyCount(techs, "Go") = 3 /\ TallyCount(dest.techs, "Go") = 3
    /\ TallyCount(techs, "Docker") = 2 /\ TallyCount(dest.techs, "Docker") = 2
    /\ \E r \in dest.repos : r.language = "Go" /\ r.metadata = dumps(DataGo.custom_metadata)

(***************************************************************************)
(* Migration of the embedded store to Deta (SpecDetaMigration): the script *)
(* migrate_to_cloud.py, run any number of times.  dest is the Deta         *)
(* project: the bases `repositories` and `technologies`.                   *)
(***************************************************************************)
\* items one base is given by the runs of the script
MaxPuts == 4

RECURSIVE PutRepositories(_, _)
\* `for repo in repositories`: the row without its id is put, under a key
\* Deta generates
PutRepositories(dst, rows) ==
    IF rows = <<>> THEN dst
    ELSE PutRepositories([dst EXCEPT !.repos = @ \cup {[Head(rows) EXCEPT !.id = dst.nextId]},
                                     !.nextId = @ + 1],
                         Tail(rows))

RECURSIVE PutTechnologies(_, _)
\* `for tech in technologies`: the same for the rows of technologies
PutTechnologies(dst, rows) ==
    IF rows = <<>> THEN dst
    ELSE PutTechnologies([dst EXCEPT !.techs = @ \cup {[Head(rows) EXCEPT !.key = dst.nextKey]},
                                     !.nextKey = @ + 1],
                         Tail(rows))

\* one run of migrate_to_cloud.py, no call of it failing.  The order of
\* SELECT * is any.
MigrateToCloud ==
    /\ dest.nextId + Cardinality(repos) <= MaxPuts + 1
    /\ dest.nextKey + Cardinality(techs) <= MaxPuts + 1
    /\ \E repositories \in Perms(repos), technologies \in Perms(techs) :
          dest' = PutTechnologies(PutRepositories(dest, repositories), technologies)
    /\ Record(Call("migrate", "", NoData, TRUE, dest.repos # {}, <<>>, <<>>))
    /\ UNCHANGED <<backend, repos, techs, nextId, nextKey, clock, logical, call,
                   refresh, procs, mirror>>

NextDetaMigration ==
    \/ \E u \in Urls, d \in SourceData : AddRepository(u, d)
    \/ \E u \in Urls : DeleteRepository(u)
    \/ MigrateToCloud

SpecDetaMigration == InitMigrate /\ [][NextDetaMigration]_vars

\* C30 (as claimed): however often the script has run, the Deta base
\* `repositories` holds at most one item per repo_url and the base
\* `technologies` at most one item per name.
C30_DetaMigrationUnique ==
    /\ \A r1, r2 \in dest.repos : r1.repo_url = r2.repo_url => r1 = r2
    /\ \A t1, t2 \in dest.techs : t1.name = t2.name => t1 = t2

====
